---- MODULE Spec2Model ----
(***************************************************************************)
(* YACReader::ConcurrentQueue (concurrent_queue.h): a fixed pool of worker *)
(* threads fed by an unbounded FIFO of jobs, with a completion counter     *)
(* (jobsLeft), a barrier (waitAll), a drain (cancelPending) and a one-shot *)
(* teardown (joinAll).                                                     *)
(*                                                                         *)
(* A step is one lock-protected section of the source (lock, body, unlock),*)
(* one condition-variable notification, or one job body.  With fine = TRUE *)
(* the unlock is a step of its own, so that the states in which a mutex is *)
(* held are visible.                                                       *)
(***************************************************************************)
EXTENDS Integers, Sequences, FiniteSets, TLC

\* ---------------------------------------------------------------- bounds
\* Spec: the workers, the calling threads and the enqueue calls.
MaxWorkers == 1
MaxUsers == 1
MaxJobs == 2
\* LiveSpec.
LiveWorkers == 1
LiveUsers == 1
LiveJobs == 1
\* ZeroSpec.
ZeroUsers == 2
ZeroJobs == 1
\* RaceSpec: calls of enqueue and cancelPending racing each other, the workers
\* and joinAll.
RaceWorkers == 1
RaceUsers == 2
RaceJobs == 1
\* BodySpec: the workers, the enqueue calls, and the calls that the job
\* bodies make on the pool.
BodyWorkers == 1
BodyJobs == 2
BodyCalls == 1
\* StuckSpec: the workers and the calls of the thread that enqueues and
\* cancels.
StuckWorkers == 1
StuckCalls == 2
\* LockSpec: the workers, the calling threads and the enqueue calls.
LockWorkers == 1
LockUsers == 1
LockJobs == 1
\* JoinSpec: the workers, the threads that call enqueue and joinAll, and the
\* enqueue calls.
JoinWorkers == 1
JoinUsers == 1
JoinJobs == 2
\* ChildSpec: the workers, and the jobs that job bodies may submit.
ChildWorkers == 1
ChildJobs == 1
\* WaitSpec: the threads that call waitAll.
WaitUsers == 2
\* The tests: the workers, the jobs of cancelPending1UserThread, of which
\* LateJobs may come from a second thread; the enqueuer threads and the jobs
\* of multipleUserThreads.
TestWorkers == 1
TestJobs == 3
LateJobs == 1
TestProducers == 2
ProducedJobs == 2

\* ------------------------------------------------------------- constants
\* waitAllFromMultipleThreads: queueThreadCount, and the size of its data set.
QueueThreadCount == 2
WaitJobs == 2

NoThread == 0
NoJob == 0
NoValue == -1

Largest(S) == CHOOSE n \in S : \A m \in S : m <= n

\* The threads of the largest configuration; a specification starts the
\* workers 1..threadCount and the user threads FirstUsers(n).
Workers == 1..Largest({MaxWorkers, LiveWorkers, RaceWorkers, BodyWorkers, StuckWorkers, LockWorkers, JoinWorkers, ChildWorkers, QueueThreadCount, TestWorkers})
MainUser == Largest(Workers \cup {0}) + 1
Users == MainUser..(MainUser + Largest({MaxUsers, LiveUsers, ZeroUsers, RaceUsers, LockUsers, JoinUsers, WaitUsers, TestProducers, 2}) - 1)
Threads == Workers \cup Users
FirstUsers(n) == MainUser..(MainUser + n - 1)

\* The summands of the jobs of the test's data set, in submission order.
JobData == <<1, 5, 3, 10, 20, 40, 80>>
Jobs == 1..Len(JobData)

Operations == {"enqueue", "cancelPending", "waitAll", "joinAll"}

\* expectedTotal(first, last): the sum of the summands of jobs first..last.
RECURSIVE ExpectedTotal(_, _)
ExpectedTotal(first, last) ==
    IF first > last THEN 0 ELSE JobData[first] + ExpectedTotal(first + 1, last)

VARIABLES
    threadCount,    \* the constructor's argument
    fine,           \* whether an unlock is a step of its own
    queue,          \* _queue: the pending jobs, head first
    jobsLeft,       \* jobsLeft
    bailout,        \* bailout
    queueMutex,     \* the thread that holds queueMutex, or NoThread
    jobsLeftMutex,  \* the thread that holds jobsLeftMutex, or NoThread
    pc,             \* where each thread is
    resume,         \* where a thread that holds a mutex goes on unlocking it
    job,            \* nextJob's local: the job a worker popped
    arg,            \* enqueue's parameter
    oldQueue,       \* cancelPending's local
    count,          \* finalizeJobs' parameter
    retval,         \* what a thread's last cancelPending call returned
    allowed,        \* the operations a thread may call at any time
    script,         \* the calls a test thread has still to make, in order
    budget,         \* how many enqueue calls may still be started
    nextId,         \* the number of enqueue calls started (the last job's id)
    executed,       \* how often each job's body has run
    drained,        \* how often each job was swapped out by cancelPending
    total,          \* the test's accumulator
    assertFailed    \* an assertion of the source did not hold

vars == <<threadCount, fine, queue, jobsLeft, bailout, queueMutex,
          jobsLeftMutex, pc, resume, job, arg, oldQueue, count, retval,
          allowed, script, budget, nextId, executed, drained, total,
          assertFailed>>

\* ------------------------------------------------------------ construction
\* The constructor: jobsLeft(0), bailout(false), n threads started on nextJob.
\* A thread that does not exist is "off".
Construct(n, users) ==
    /\ threadCount = n
    /\ queue = <<>>
    /\ jobsLeft = 0
    /\ bailout = FALSE
    /\ queueMutex = NoThread
    /\ jobsLeftMutex = NoThread
    /\ pc = [t \in Threads |->
                IF t \in Workers
                THEN (IF t <= n THEN "nj" ELSE "off")
                ELSE (IF t \in users THEN "idle" ELSE "off")]
    /\ resume = [t \in Threads |-> ""]
    /\ job = [t \in Threads |-> NoJob]
    /\ arg = [t \in Threads |-> NoJob]
    /\ oldQueue = [t \in Threads |-> <<>>]
    /\ count = [t \in Threads |-> 0]
    /\ retval = [t \in Threads |-> NoValue]
    /\ nextId = 0
    /\ executed = [j \in Jobs |-> 0]
    /\ drained = [j \in Jobs |-> 0]
    /\ total = 0
    /\ assertFailed = FALSE

\* Callers that may call `ops` at any time, at most `enqueues` enqueue calls.
FreeCallers(users, ops, enqueues) ==
    /\ allowed = [t \in Threads |-> IF t \in users THEN ops ELSE {}]
    /\ script = [t \in Threads |-> <<>>]
    /\ budget = enqueues

Init ==
    /\ fine = FALSE
    /\ \E n \in 0..MaxWorkers : Construct(n, FirstUsers(MaxUsers))
    /\ FreeCallers(FirstUsers(MaxUsers), Operations, MaxJobs)

\* -------------------------------------------------------------- helpers
\* Where a pool operation returns to: a calling thread is idle again, the
\* body of a job that made the call goes on.
Return(t) == IF t \in Workers THEN "job" ELSE "idle"

\* The predicate of jobAvailableVar.wait.
JobAvailable == Len(queue) > 0 \/ bailout

\* (mutant: waitAll waits for the pending queue to be empty)
QueueIsEmpty == Len(queue) = 0

\* (mutant: the barrier opens one job early)
OneJobLeft == jobsLeft <= 1

\* The predicate of _waitVar.wait.
NoJobsLeft == jobsLeft = 0

\* (mutant: back in the place of front)
Back(q) == q[Len(q)]

\* std::queue::front and pop.
Front(q) == Head(q)
\* (mutant: the head job is read and left in the queue)
PopNothing(q) == q
Pop(q) == Tail(q)

\* The end of a lock-protected section of thread t that goes on at `next`:
\* the holder of the mutex and the thread's position after the section's step.
Holder(t) == IF fine THEN t ELSE NoThread
Section(t, unlock, next) ==
    /\ pc' = [pc EXCEPT ![t] = IF fine THEN unlock ELSE next]
    /\ resume' = [resume EXCEPT ![t] = IF fine THEN next ELSE ""]

\* (mutant: the notification is not sent)
NotifyNobody(t, to, w, woken) == [pc EXCEPT ![t] = to]

\* pc after thread t moved to `to` and condition_variable::notify_one woke
\* thread w (NoThread: nobody was waiting).
NotifyOne(t, to, w, woken) ==
    [x \in Threads |-> IF x = t THEN to ELSE IF x = w THEN woken ELSE pc[x]]

\* (mutant: notify_one in the place of notify_all, and nobody to hear it)
NotifyAllMissed(t, to, blocked, woken) == [pc EXCEPT ![t] = to]

\* (mutant: notify_one in the place of notify_all)
NotifyAllWakesOne(t, to, blocked, woken) ==
    LET waiting == {x \in Threads \ {t} : pc[x] = blocked}
    IN  [x \in Threads |->
            IF x = t THEN to
            ELSE IF x \in waiting /\ \A y \in waiting : x <= y THEN woken
            ELSE pc[x]]

\* pc after thread t moved to `to` and condition_variable::notify_all woke
\* every thread blocked at `blocked`.
NotifyAll(t, to, blocked, woken) ==
    [x \in Threads |->
        IF x = t THEN to ELSE IF pc[x] = blocked THEN woken ELSE pc[x]]

\* The end of the scope of a lock on queueMutex or jobsLeftMutex, where the
\* unlock is a step of its own.
UnlockQueueMutex(t) ==
    /\ pc[t] = "unlock_queue"
    /\ queueMutex = t
    /\ queueMutex' = NoThread
    /\ pc' = [pc EXCEPT ![t] = resume[t]]
    /\ resume' = [resume EXCEPT ![t] = ""]
    /\ UNCHANGED <<threadCount, fine, queue, jobsLeft, bailout,
                   jobsLeftMutex, job, arg, oldQueue, count, retval, allowed,
                   script, budget, nextId, executed, drained, total,
                   assertFailed>>

UnlockJobsLeftMutex(t) ==
    /\ pc[t] = "unlock_jobsLeft"
    /\ jobsLeftMutex = t
    /\ jobsLeftMutex' = NoThread
    /\ pc' = [pc EXCEPT ![t] = resume[t]]
    /\ resume' = [resume EXCEPT ![t] = ""]
    /\ UNCHANGED <<threadCount, fine, queue, jobsLeft, bailout, queueMutex,
                   job, arg, oldQueue, count, retval, allowed, script,
                   budget, nextId, executed, drained, total, assertFailed>>

\* ------------------------------------------------------------ the callers
MayCall(t, op) ==
    /\ pc[t] = Return(t)
    /\ \/ op \in allowed[t]
       \/ script[t] # <<>> /\ Head(script[t]) = op

Called(t, op) ==
    script' = [script EXCEPT ![t] =
                  IF script[t] # <<>> /\ Head(script[t]) = op
                  THEN Tail(script[t]) ELSE script[t]]

CallEnqueue(t) ==
    /\ MayCall(t, "enqueue")
    /\ budget > 0
    /\ Called(t, "enqueue")
    /\ budget' = budget - 1
    /\ nextId' = nextId + 1
    /\ arg' = [arg EXCEPT ![t] = nextId + 1]
    /\ pc' = [pc EXCEPT ![t] = "enq"]
    /\ UNCHANGED <<threadCount, fine, queue, jobsLeft, bailout, queueMutex,
                   jobsLeftMutex, resume, job, oldQueue, count, retval,
                   allowed, executed, drained, total, assertFailed>>

CallCancelPending(t) ==
    /\ MayCall(t, "cancelPending")
    /\ Called(t, "cancelPending")
    /\ retval' = [retval EXCEPT ![t] = NoValue]
    /\ pc' = [pc EXCEPT ![t] = "cp"]
    /\ UNCHANGED <<threadCount, fine, queue, jobsLeft, bailout, queueMutex,
                   jobsLeftMutex, resume, job, arg, oldQueue, count, allowed,
                   budget, nextId, executed, drained, total, assertFailed>>

CallWaitAll(t) ==
    /\ MayCall(t, "waitAll")
    /\ Called(t, "waitAll")
    /\ pc' = [pc EXCEPT ![t] = "wa"]
    /\ UNCHANGED <<threadCount, fine, queue, jobsLeft, bailout, queueMutex,
                   jobsLeftMutex, resume, job, arg, oldQueue, count, retval,
                   allowed, budget, nextId, executed, drained, total,
                   assertFailed>>

\* joinAll is private: it is the destructor that calls it.
CallJoinAll(t) ==
    /\ MayCall(t, "joinAll")
    /\ Called(t, "joinAll")
    /\ pc' = [pc EXCEPT ![t] = "ja"]
    /\ UNCHANGED <<threadCount, fine, queue, jobsLeft, bailout, queueMutex,
                   jobsLeftMutex, resume, job, arg, oldQueue, count, retval,
                   allowed, budget, nextId, executed, drained, total,
                   assertFailed>>

\* t.join() on the test's enqueuer threads: they have made all their calls.
JoinThreads(t) ==
    /\ MayCall(t, "join")
    /\ \A u \in Users \ {t} : pc[u] \in {"idle", "off"} /\ script[u] = <<>>
    /\ Called(t, "join")
    /\ UNCHANGED <<threadCount, fine, queue, jobsLeft, bailout, queueMutex,
                   jobsLeftMutex, pc, resume, job, arg, oldQueue, count,
                   retval, allowed, budget, nextId, executed, drained, total,
                   assertFailed>>

\* ---------------------------------------------------------------- enqueue
\* (mutant: the job is queued without being counted)
EnqueueUncounted(t) ==
    /\ pc[t] = "enq"
    /\ jobsLeftMutex = NoThread
    /\ jobsLeftMutex' = Holder(t)
    /\ Section(t, "unlock_jobsLeft", "enq_push")
    /\ UNCHANGED <<threadCount, fine, queue, jobsLeft, bailout, queueMutex,
                   job, arg, oldQueue, count, retval, allowed, script,
                   budget, nextId, executed, drained, total, assertFailed>>

EnqueueIncrement(t) ==
    /\ pc[t] = "enq"
    /\ jobsLeftMutex = NoThread
    /\ jobsLeftMutex' = Holder(t)
    /\ jobsLeft' = jobsLeft + 1
    /\ Section(t, "unlock_jobsLeft", "enq_push")
    /\ UNCHANGED <<threadCount, fine, queue, bailout, queueMutex, job, arg,
                   oldQueue, count, retval, allowed, script, budget, nextId,
                   executed, drained, total, assertFailed>>

\* (mutant: a queue of one slot, enqueue waits for the slot to be free)
EnqueuePushBounded(t) ==
    /\ pc[t] = "enq_push"
    /\ queueMutex = NoThread
    /\ Len(queue) < 1
    /\ queueMutex' = Holder(t)
    /\ queue' = Append(queue, arg[t])
    /\ Section(t, "unlock_queue", "enq_notify")
    /\ UNCHANGED <<threadCount, fine, jobsLeft, bailout, jobsLeftMutex, job,
                   arg, oldQueue, count, retval, allowed, script, budget,
                   nextId, executed, drained, total, assertFailed>>

\* (mutant: the job is put at the head of the queue)
EnqueuePushFront(t) ==
    /\ pc[t] = "enq_push"
    /\ queueMutex = NoThread
    /\ queueMutex' = Holder(t)
    /\ queue' = <<arg[t]>> \o queue
    /\ Section(t, "unlock_queue", "enq_notify")
    /\ UNCHANGED <<threadCount, fine, jobsLeft, bailout, jobsLeftMutex, job,
                   arg, oldQueue, count, retval, allowed, script, budget,
                   nextId, executed, drained, total, assertFailed>>

EnqueuePush(t) ==
    /\ pc[t] = "enq_push"
    /\ queueMutex = NoThread
    /\ queueMutex' = Holder(t)
    /\ queue' = Append(queue, arg[t])
    /\ Section(t, "unlock_queue", "enq_notify")
    /\ UNCHANGED <<threadCount, fine, jobsLeft, bailout, jobsLeftMutex, job,
                   arg, oldQueue, count, retval, allowed, script, budget,
                   nextId, executed, drained, total, assertFailed>>

EnqueueNotify(t) ==
    /\ pc[t] = "enq_notify"
    /\ LET waiting == {w \in Workers : pc[w] = "nj_blocked"}
       IN  \E w \in (IF waiting = {} THEN {NoThread} ELSE waiting) :
               pc' = NotifyOne(t, Return(t), w, "nj_woken")
    /\ arg' = [arg EXCEPT ![t] = NoJob]
    /\ UNCHANGED <<threadCount, fine, queue, jobsLeft, bailout, queueMutex,
                   jobsLeftMutex, resume, job, oldQueue, count, retval,
                   allowed, script, budget, nextId, executed, drained, total,
                   assertFailed>>

\* ----------------------------------------------------------- finalizeJobs
\* finalizeJobs(1) was called by nextJob after the job; otherwise by
\* cancelPending, whose oldQueue is not empty then.
FinalizesJob(t) == t \in Workers /\ oldQueue[t] = <<>>

\* What the caller of finalizeJobs does when it returns: cancelPending
\* returns the size of oldQueue, nextJob starts its next iteration.
AfterFinalize(t) == IF FinalizesJob(t) THEN "nj" ELSE Return(t)

Finalized(t) ==
    /\ count' = [count EXCEPT ![t] = 0]
    /\ IF FinalizesJob(t)
       THEN /\ job' = [job EXCEPT ![t] = NoJob]
            /\ UNCHANGED <<retval, oldQueue>>
       ELSE /\ retval' = [retval EXCEPT ![t] = Len(oldQueue[t])]
            /\ oldQueue' = [oldQueue EXCEPT ![t] = <<>>]
            /\ UNCHANGED job

\* (mutant: the counter goes down by one, whatever the count)
FinalizeDecrementByOne(t) ==
    /\ pc[t] = "fj"
    /\ jobsLeftMutex = NoThread
    /\ jobsLeftMutex' = Holder(t)
    /\ assertFailed' = (assertFailed \/ count[t] <= 0 \/ jobsLeft < count[t])
    /\ jobsLeft' = jobsLeft - 1
    /\ IF jobsLeft - 1 = 0
       THEN /\ Section(t, "unlock_jobsLeft", "fj_notify")
            /\ UNCHANGED <<count, job, retval, oldQueue>>
       ELSE /\ Section(t, "unlock_jobsLeft", AfterFinalize(t))
            /\ Finalized(t)
    /\ UNCHANGED <<threadCount, fine, queue, bailout, queueMutex, arg,
                   allowed, script, budget, nextId, executed, drained, total>>

FinalizeDecrement(t) ==
    /\ pc[t] = "fj"
    /\ jobsLeftMutex = NoThread
    /\ jobsLeftMutex' = Holder(t)
    /\ assertFailed' = (assertFailed \/ count[t] <= 0 \/ jobsLeft < count[t])
    /\ jobsLeft' = jobsLeft - count[t]
    /\ IF jobsLeft - count[t] = 0
       THEN /\ Section(t, "unlock_jobsLeft", "fj_notify")
            /\ UNCHANGED <<count, job, retval, oldQueue>>
       ELSE /\ Section(t, "unlock_jobsLeft", AfterFinalize(t))
            /\ Finalized(t)
    /\ UNCHANGED <<threadCount, fine, queue, bailout, queueMutex, arg,
                   allowed, script, budget, nextId, executed, drained, total>>

FinalizeNotify(t) ==
    /\ pc[t] = "fj_notify"
    /\ pc' = NotifyAll(t, AfterFinalize(t), "wa_blocked", "wa_woken")
    /\ Finalized(t)
    /\ UNCHANGED <<threadCount, fine, queue, jobsLeft, bailout, queueMutex,
                   jobsLeftMutex, resume, arg, allowed, script, budget,
                   nextId, executed, drained, total, assertFailed>>

\* ---------------------------------------------------------- cancelPending
\* (mutant: finalizeJobs is called whatever the size)
CancelSwapAlwaysFinalize(t) ==
    /\ pc[t] = "cp"
    /\ queueMutex = NoThread
    /\ queueMutex' = Holder(t)
    /\ queue' = <<>>
    /\ drained' = [j \in Jobs |->
                     drained[j] + Cardinality({i \in 1..Len(queue) : queue[i] = j})]
    /\ oldQueue' = [oldQueue EXCEPT ![t] = queue]
    /\ count' = [count EXCEPT ![t] = Len(queue)]
    /\ Section(t, "unlock_queue", "fj")
    /\ UNCHANGED <<threadCount, fine, jobsLeft, bailout, jobsLeftMutex, job,
                   arg, retval, allowed, script, budget, nextId, executed,
                   total, assertFailed>>

\* (mutant: oldQueue is a copy, _queue keeps its jobs)
CancelSwapCopies(t) ==
    /\ pc[t] = "cp"
    /\ queueMutex = NoThread
    /\ queueMutex' = Holder(t)
    /\ drained' = [j \in Jobs |->
                     drained[j] + Cardinality({i \in 1..Len(queue) : queue[i] = j})]
    /\ IF Len(queue) # 0
       THEN /\ oldQueue' = [oldQueue EXCEPT ![t] = queue]
            /\ count' = [count EXCEPT ![t] = Len(queue)]
            /\ Section(t, "unlock_queue", "fj")
            /\ UNCHANGED retval
       ELSE /\ retval' = [retval EXCEPT ![t] = Len(queue)]
            /\ Section(t, "unlock_queue", Return(t))
            /\ UNCHANGED <<oldQueue, count>>
    /\ UNCHANGED <<threadCount, fine, queue, jobsLeft, bailout,
                   jobsLeftMutex, job, arg, allowed, script, budget, nextId,
                   executed, total, assertFailed>>

\* (mutant: the jobs are removed one short of all, the last one stays queued)
CancelSwapLeavesLast(t) ==
    /\ pc[t] = "cp"
    /\ queueMutex = NoThread
    /\ queueMutex' = Holder(t)
    /\ LET taken == IF queue = <<>> THEN <<>> ELSE SubSeq(queue, 1, Len(queue) - 1)
       IN  /\ queue' = IF queue = <<>> THEN <<>> ELSE <<queue[Len(queue)]>>
           /\ drained' = [j \in Jobs |->
                     drained[j] + Cardinality({i \in 1..Len(taken) : taken[i] = j})]
           /\ IF Len(taken) # 0
              THEN /\ oldQueue' = [oldQueue EXCEPT ![t] = taken]
                   /\ count' = [count EXCEPT ![t] = Len(taken)]
                   /\ Section(t, "unlock_queue", "fj")
                   /\ UNCHANGED retval
              ELSE /\ retval' = [retval EXCEPT ![t] = Len(taken)]
                   /\ Section(t, "unlock_queue", Return(t))
                   /\ UNCHANGED <<oldQueue, count>>
    /\ UNCHANGED <<threadCount, fine, jobsLeft, bailout, jobsLeftMutex, job,
                   arg, allowed, script, budget, nextId, executed, total,
                   assertFailed>>

\* (mutant: finalizeJobs is called inside the scope of the lock)
CancelSwapFinalizesLocked(t) ==
    /\ pc[t] = "cp"
    /\ queueMutex = NoThread
    /\ queueMutex' = Holder(t)
    /\ queue' = <<>>
    /\ drained' = [j \in Jobs |->
                     drained[j] + Cardinality({i \in 1..Len(queue) : queue[i] = j})]
    /\ IF Len(queue) # 0
       THEN /\ oldQueue' = [oldQueue EXCEPT ![t] = queue]
            /\ count' = [count EXCEPT ![t] = Len(queue)]
            /\ pc' = [pc EXCEPT ![t] = "fj"]
            /\ UNCHANGED <<resume, retval>>
       ELSE /\ retval' = [retval EXCEPT ![t] = Len(queue)]
            /\ Section(t, "unlock_queue", Return(t))
            /\ UNCHANGED <<oldQueue, count>>
    /\ UNCHANGED <<threadCount, fine, jobsLeft, bailout, jobsLeftMutex, job,
                   arg, allowed, script, budget, nextId, executed, total,
                   assertFailed>>

CancelSwap(t) ==
    /\ pc[t] = "cp"
    /\ queueMutex = NoThread
    /\ queueMutex' = Holder(t)
    /\ queue' = <<>>
    /\ drained' = [j \in Jobs |->
                     drained[j] + Cardinality({i \in 1..Len(queue) : queue[i] = j})]
    /\ IF Len(queue) # 0
       THEN /\ oldQueue' = [oldQueue EXCEPT ![t] = queue]
            /\ count' = [count EXCEPT ![t] = Len(queue)]
            /\ Section(t, "unlock_queue", "fj")
            /\ UNCHANGED retval
       ELSE /\ retval' = [retval EXCEPT ![t] = Len(queue)]
            /\ Section(t, "unlock_queue", Return(t))
            /\ UNCHANGED <<oldQueue, count>>
    /\ UNCHANGED <<threadCount, fine, jobsLeft, bailout, jobsLeftMutex, job,
                   arg, allowed, script, budget, nextId, executed, total,
                   assertFailed>>

\* ---------------------------------------------------------------- waitAll
\* Holding the lock: `if (jobsLeft > 0)` on entry, the wait's predicate after
\* a wake-up.  Waiting releases the lock and blocks in one step.
WaitAllCheck(t) ==
    /\ pc[t] \in {"wa", "wa_woken"}
    /\ jobsLeftMutex = NoThread
    /\ LET wait == IF pc[t] = "wa"
                   THEN jobsLeft > 0 /\ ~NoJobsLeft
                   ELSE ~NoJobsLeft
       IN  IF wait
           THEN /\ pc' = [pc EXCEPT ![t] = "wa_blocked"]
                /\ UNCHANGED <<jobsLeftMutex, resume>>
           ELSE /\ jobsLeftMutex' = Holder(t)
                /\ Section(t, "unlock_jobsLeft", Return(t))
    /\ UNCHANGED <<threadCount, fine, queue, jobsLeft, bailout, queueMutex,
                   job, arg, oldQueue, count, retval, allowed, script,
                   budget, nextId, executed, drained, total, assertFailed>>

\* ---------------------------------------------------------------- nextJob
\* (mutant: the job is called inside the scope of the lock)
NextJobFetchRunsLocked(w) ==
    /\ pc[w] \in {"nj", "nj_woken"}
    /\ queueMutex = NoThread
    /\ IF pc[w] = "nj" /\ bailout
       THEN /\ queueMutex' = Holder(w)
            /\ Section(w, "unlock_queue", "terminated")
            /\ UNCHANGED <<queue, job>>
       ELSE IF ~JobAvailable
       THEN /\ pc' = [pc EXCEPT ![w] = "nj_blocked"]
            /\ UNCHANGED <<queueMutex, resume, queue, job>>
       ELSE IF bailout
       THEN /\ queueMutex' = Holder(w)
            /\ Section(w, "unlock_queue", "terminated")
            /\ UNCHANGED <<queue, job>>
       ELSE /\ queueMutex' = Holder(w)
            /\ job' = [job EXCEPT ![w] = Front(queue)]
            /\ queue' = Pop(queue)
            /\ pc' = [pc EXCEPT ![w] = "job"]
            /\ UNCHANGED resume
    /\ UNCHANGED <<threadCount, fine, jobsLeft, bailout, jobsLeftMutex, arg,
                   oldQueue, count, retval, allowed, script, budget, nextId,
                   executed, drained, total, assertFailed>>

\* (mutant: no second look at bailout after the wait)
NextJobFetchNoRecheck(w) ==
    /\ pc[w] \in {"nj", "nj_woken"}
    /\ queueMutex = NoThread
    /\ IF pc[w] = "nj" /\ bailout
       THEN /\ queueMutex' = Holder(w)
            /\ Section(w, "unlock_queue", "terminated")
            /\ UNCHANGED <<queue, job>>
       ELSE IF ~JobAvailable
       THEN /\ pc' = [pc EXCEPT ![w] = "nj_blocked"]
            /\ UNCHANGED <<queueMutex, resume, queue, job>>
       ELSE IF queue = <<>>
       THEN /\ queueMutex' = Holder(w)
            /\ Section(w, "unlock_queue", "terminated")
            /\ UNCHANGED <<queue, job>>
       ELSE /\ queueMutex' = Holder(w)
            /\ job' = [job EXCEPT ![w] = Front(queue)]
            /\ queue' = Pop(queue)
            /\ Section(w, "unlock_queue", "job")
    /\ UNCHANGED <<threadCount, fine, jobsLeft, bailout, jobsLeftMutex, arg,
                   oldQueue, count, retval, allowed, script, budget, nextId,
                   executed, drained, total, assertFailed>>

\* (mutant: a wait with no predicate, the worker sleeps until it is notified)
NextJobFetchWaitsBlind(w) ==
    /\ pc[w] \in {"nj", "nj_woken"}
    /\ queueMutex = NoThread
    /\ IF pc[w] = "nj" /\ bailout
       THEN /\ queueMutex' = Holder(w)
            /\ Section(w, "unlock_queue", "terminated")
            /\ UNCHANGED <<queue, job>>
       ELSE IF pc[w] = "nj" \/ ~JobAvailable
       THEN /\ pc' = [pc EXCEPT ![w] = "nj_blocked"]
            /\ UNCHANGED <<queueMutex, resume, queue, job>>
       ELSE IF bailout
       THEN /\ queueMutex' = Holder(w)
            /\ Section(w, "unlock_queue", "terminated")
            /\ UNCHANGED <<queue, job>>
       ELSE /\ queueMutex' = Holder(w)
            /\ job' = [job EXCEPT ![w] = Front(queue)]
            /\ queue' = Pop(queue)
            /\ Section(w, "unlock_queue", "job")
    /\ UNCHANGED <<threadCount, fine, jobsLeft, bailout, jobsLeftMutex, arg,
                   oldQueue, count, retval, allowed, script, budget, nextId,
                   executed, drained, total, assertFailed>>

\* Holding the lock: `if (bailout) return` and the wait's predicate on entry,
\* the predicate and `if (bailout) return` after a wake-up; then front and pop.
NextJobFetch(w) ==
    /\ pc[w] \in {"nj", "nj_woken"}
    /\ queueMutex = NoThread
    /\ IF pc[w] = "nj" /\ bailout
       THEN /\ queueMutex' = Holder(w)
            /\ Section(w, "unlock_queue", "terminated")
            /\ UNCHANGED <<queue, job>>
       ELSE IF ~JobAvailable
       THEN /\ pc' = [pc EXCEPT ![w] = "nj_blocked"]
            /\ UNCHANGED <<queueMutex, resume, queue, job>>
       ELSE IF bailout
       THEN /\ queueMutex' = Holder(w)
            /\ Section(w, "unlock_queue", "terminated")
            /\ UNCHANGED <<queue, job>>
       ELSE /\ queueMutex' = Holder(w)
            /\ job' = [job EXCEPT ![w] = Front(queue)]
            /\ queue' = Pop(queue)
            /\ Section(w, "unlock_queue", "job")
    /\ UNCHANGED <<threadCount, fine, jobsLeft, bailout, jobsLeftMutex, arg,
                   oldQueue, count, retval, allowed, script, budget, nextId,
                   executed, drained, total, assertFailed>>

\* job(): the test's Job adds its summand to the total; then finalizeJobs(1).
RunJob(w) ==
    /\ pc[w] = "job"
    /\ executed' = [executed EXCEPT ![job[w]] = @ + 1]
    /\ total' = total + JobData[job[w]]
    /\ count' = [count EXCEPT ![w] = 1]
    /\ pc' = [pc EXCEPT ![w] = "fj"]
    /\ UNCHANGED <<threadCount, fine, queue, jobsLeft, bailout, queueMutex,
                   jobsLeftMutex, resume, job, arg, oldQueue, retval,
                   allowed, script, budget, nextId, drained, assertFailed>>

\* A condition variable may wake a waiting thread without a notification.
SpuriousWakeup(t) ==
    /\ pc[t] \in {"nj_blocked", "wa_blocked"}
    /\ pc' = [pc EXCEPT ![t] = IF pc[t] = "nj_blocked" THEN "nj_woken" ELSE "wa_woken"]
    /\ UNCHANGED <<threadCount, fine, queue, jobsLeft, bailout, queueMutex,
                   jobsLeftMutex, resume, job, arg, oldQueue, count, retval,
                   allowed, script, budget, nextId, executed, drained, total,
                   assertFailed>>

\* ---------------------------------------------------------------- joinAll
JoinAllSetBailout(t) ==
    /\ pc[t] = "ja"
    /\ queueMutex = NoThread
    /\ queueMutex' = Holder(t)
    /\ IF bailout
       THEN /\ Section(t, "unlock_queue", Return(t))
            /\ UNCHANGED bailout
       ELSE /\ bailout' = TRUE
            /\ Section(t, "unlock_queue", "ja_notify")
    /\ UNCHANGED <<threadCount, fine, queue, jobsLeft, jobsLeftMutex, job,
                   arg, oldQueue, count, retval, allowed, script, budget,
                   nextId, executed, drained, total, assertFailed>>

\* (mutant: joinAll joins the workers without notifying them)
JoinAllSilent(t) ==
    /\ pc[t] = "ja_notify"
    /\ pc' = [pc EXCEPT ![t] = "ja_join"]
    /\ UNCHANGED <<threadCount, fine, queue, jobsLeft, bailout, queueMutex,
                   jobsLeftMutex, resume, job, arg, oldQueue, count, retval,
                   allowed, script, budget, nextId, executed, drained, total,
                   assertFailed>>

JoinAllNotify(t) ==
    /\ pc[t] = "ja_notify"
    /\ pc' = NotifyAll(t, "ja_join", "nj_blocked", "nj_woken")
    /\ UNCHANGED <<threadCount, fine, queue, jobsLeft, bailout, queueMutex,
                   jobsLeftMutex, resume, job, arg, oldQueue, count, retval,
                   allowed, script, budget, nextId, executed, drained, total,
                   assertFailed>>

\* for (auto &x : threads) x.join(): returns once every worker has returned
\* from nextJob.
JoinAllJoin(t) ==
    /\ pc[t] = "ja_join"
    /\ \A w \in Workers : pc[w] \in {"off", "terminated"}
    /\ pc' = [pc EXCEPT ![t] = Return(t)]
    /\ UNCHANGED <<threadCount, fine, queue, jobsLeft, bailout, queueMutex,
                   jobsLeftMutex, resume, job, arg, oldQueue, count, retval,
                   allowed, script, budget, nextId, executed, drained, total,
                   assertFailed>>

\* ------------------------------------------------------- the pool's steps
Enqueue(t) ==
    \/ CallEnqueue(t)
    \/ EnqueueIncrement(t)
    \/ EnqueuePush(t)
    \/ EnqueueNotify(t)

FinalizeJobs(t) ==
    \/ FinalizeDecrement(t)
    \/ FinalizeNotify(t)

CancelPending(t) ==
    \/ CallCancelPending(t)
    \/ CancelSwap(t)

WaitAll(t) ==
    \/ CallWaitAll(t)
    \/ WaitAllCheck(t)

NextJob(w) ==
    \/ NextJobFetch(w)
    \/ RunJob(w)

JoinAll(t) ==
    \/ CallJoinAll(t)
    \/ JoinAllSetBailout(t)
    \/ JoinAllNotify(t)
    \/ JoinAllJoin(t)

\* Every interleaving of the four operations, called by any user thread at any
\* time, with the workers.
Next ==
    \/ \E t \in Users : Enqueue(t)
    \/ \E t \in Users : CancelPending(t)
    \/ \E t \in Users : WaitAll(t)
    \/ \E t \in Users : JoinAll(t)
    \/ \E t \in Threads : FinalizeJobs(t)
    \/ \E w \in Workers : NextJob(w)
    \/ \E t \in Threads : SpuriousWakeup(t)

Spec == Init /\ [][Next]_vars

\* ------------------------------------------------------------ fair runs
\* The steps a scheduled thread takes inside the pool's operations: a thread
\* that can take one is not suspended forever.  Calls are the callers'
\* choice, and no wake-up without a notification is ever due.
Progress(t) ==
    \/ EnqueueIncrement(t)
    \/ EnqueuePush(t)
    \/ EnqueueNotify(t)
    \/ CancelSwap(t)
    \/ FinalizeDecrement(t)
    \/ FinalizeNotify(t)
    \/ WaitAllCheck(t)
    \/ NextJobFetch(t)
    \/ RunJob(t)

Fairness == \A t \in Threads : WF_vars(Progress(t))

\* The pool in use, teardown not started: enqueue, cancelPending and waitAll
\* called at any time.
LiveInit ==
    /\ fine = FALSE
    /\ \E n \in 1..LiveWorkers : Construct(n, FirstUsers(LiveUsers))
    /\ FreeCallers(FirstUsers(LiveUsers), Operations \ {"joinAll"}, LiveJobs)

LiveNext ==
    \/ \E t \in Users : Enqueue(t)
    \/ \E t \in Users : CancelPending(t)
    \/ \E t \in Users : WaitAll(t)
    \/ \E t \in Threads : FinalizeJobs(t)
    \/ \E w \in Workers : NextJob(w)
    \/ \E t \in Threads : SpuriousWakeup(t)

LiveSpec == LiveInit /\ [][LiveNext]_vars /\ Fairness

\* A pool of no worker threads.
ZeroInit ==
    /\ fine = FALSE
    /\ Construct(0, FirstUsers(ZeroUsers))
    /\ FreeCallers(FirstUsers(ZeroUsers), Operations \ {"joinAll"}, ZeroJobs)

ZeroNext ==
    \/ \E t \in Users : Enqueue(t)
    \/ \E t \in Users : CancelPending(t)
    \/ \E t \in Users : WaitAll(t)
    \/ \E t \in Users : FinalizeJobs(t)
    \/ \E t \in Users : SpuriousWakeup(t)

ZeroSpec == ZeroInit /\ [][ZeroNext]_vars /\ Fairness

\* Threads that call enqueue, cancelPending and joinAll at any time.
RaceInit ==
    /\ fine = FALSE
    /\ \E n \in 0..RaceWorkers :
          /\ Construct(n, FirstUsers(RaceUsers))
          /\ FreeCallers(FirstUsers(RaceUsers), Operations \ {"waitAll"}, RaceJobs)

RaceNext ==
    \/ \E t \in Users : Enqueue(t)
    \/ \E t \in Users : CancelPending(t)
    \/ \E t \in Users : JoinAll(t)
    \/ \E t \in Threads : FinalizeJobs(t)
    \/ \E w \in Workers : NextJob(w)
    \/ \E w \in Workers : SpuriousWakeup(w)

RaceSpec == RaceInit /\ [][RaceNext]_vars



\* The pool with every lock and unlock a step of its own.
LockInit ==
    /\ fine = TRUE
    /\ \E n \in 0..LockWorkers :
          /\ Construct(n, FirstUsers(LockUsers))
          /\ FreeCallers(FirstUsers(LockUsers), Operations, LockJobs)

LockNext ==
    \/ Next
    \/ \E t \in Threads : UnlockQueueMutex(t)
    \/ \E t \in Threads : UnlockJobsLeftMutex(t)

LockSpec == LockInit /\ [][LockNext]_vars

\* Jobs whose bodies call the pool that runs them: a thread enqueues at any
\* time, and the bodies that a worker runs make the calls of `calls`, in order.
\* Every unlock is a step of its own.
BodyInit ==
    /\ fine = TRUE
    /\ \E n \in 1..BodyWorkers, k \in 0..BodyCalls :
          \E calls \in [1..k -> {"enqueue", "cancelPending", "waitAll"}] :
             /\ Construct(n, {MainUser})
             /\ allowed = [t \in Threads |->
                              IF t = MainUser THEN {"enqueue"} ELSE {}]
             /\ script = [t \in Threads |->
                             IF t \in Workers /\ t <= n THEN calls ELSE <<>>]
             /\ budget = BodyJobs

BodyNext ==
    \/ \E t \in Threads : Enqueue(t)
    \/ \E w \in Workers : CancelPending(w)
    \/ \E w \in Workers : WaitAll(w)
    \/ \E w \in Workers : FinalizeJobs(w)
    \/ \E w \in Workers : NextJob(w)
    \/ \E w \in Workers : SpuriousWakeup(w)
    \/ \E t \in Threads : UnlockQueueMutex(t)
    \/ \E t \in Threads : UnlockJobsLeftMutex(t)

BodyFairness ==
    \A t \in Threads :
        WF_vars(Progress(t) \/ UnlockQueueMutex(t) \/ UnlockJobsLeftMutex(t))

BodySpec == BodyInit /\ [][BodyNext]_vars /\ BodyFairness

\* Jobs that may never finish: one thread makes enqueue and cancelPending
\* calls, another one calls waitAll.  A thread is scheduled inside the pool's
\* operations, but nothing makes the body of a job return.  Every unlock is a
\* step of its own.
StuckInit ==
    /\ fine = TRUE
    /\ \E n \in 0..StuckWorkers, k \in 0..StuckCalls :
          \E calls \in [1..k -> {"enqueue", "cancelPending"}] :
             /\ Construct(n, {MainUser, MainUser + 1})
             /\ allowed = [t \in Threads |-> {}]
             /\ script = [t \in Threads |->
                             IF t = MainUser THEN calls
                             ELSE IF t = MainUser + 1 THEN <<"waitAll">>
                             ELSE <<>>]
             /\ budget = k

StuckNext ==
    \/ \E t \in Users : Enqueue(t)
    \/ \E t \in Users : CancelPending(t)
    \/ \E t \in Users : WaitAll(t)
    \/ \E t \in Threads : FinalizeJobs(t)
    \/ \E w \in Workers : NextJob(w)
    \/ \E t \in Threads : SpuriousWakeup(t)
    \/ \E t \in Threads : UnlockQueueMutex(t)
    \/ \E t \in Threads : UnlockJobsLeftMutex(t)

StuckFairness ==
    \A t \in Threads :
        WF_vars(\/ EnqueueIncrement(t) \/ EnqueuePush(t) \/ EnqueueNotify(t)
                \/ CancelSwap(t) \/ FinalizeDecrement(t) \/ FinalizeNotify(t)
                \/ WaitAllCheck(t) \/ NextJobFetch(t)
                \/ UnlockQueueMutex(t) \/ UnlockJobsLeftMutex(t))

StuckSpec == StuckInit /\ [][StuckNext]_vars /\ StuckFairness

\* Jobs that submit jobs: a thread enqueues one job and may call cancelPending
\* at any time, a second thread may call waitAll at any time, and the bodies
\* that a worker runs call enqueue, at most ChildJobs times in all.  The job
\* of the thread is job 1, every other job was submitted by a job body.
ChildInit ==
    /\ fine = FALSE
    /\ \E n \in 1..ChildWorkers, k \in 1..ChildJobs :
          /\ Construct(n, {MainUser, MainUser + 1})
          /\ allowed = [t \in Threads |->
                           IF t = MainUser THEN {"cancelPending"}
                           ELSE IF t = MainUser + 1 THEN {"waitAll"}
                           ELSE {}]
          /\ script = [t \in Threads |->
                          IF t = MainUser THEN <<"enqueue">>
                          ELSE IF t \in Workers /\ t <= n
                          THEN [i \in 1..k |-> "enqueue"]
                          ELSE <<>>]
          /\ budget = 1 + ChildJobs

ChildNext ==
    \/ \E t \in Threads : Enqueue(t)
    \/ \E t \in Users : CancelPending(t)
    \/ \E t \in Users : WaitAll(t)
    \/ \E t \in Threads : FinalizeJobs(t)
    \/ \E w \in Workers : NextJob(w)
    \/ \E t \in Threads : SpuriousWakeup(t)

ChildSpec == ChildInit /\ [][ChildNext]_vars

\* Teardown: enqueue and joinAll called at any time, and a thread inside
\* joinAll is scheduled as it is inside the other operations.
JoinInit ==
    /\ fine = FALSE
    /\ \E n \in 0..JoinWorkers :
          /\ Construct(n, FirstUsers(JoinUsers))
          /\ FreeCallers(FirstUsers(JoinUsers), {"enqueue", "joinAll"}, JoinJobs)

JoinNext ==
    \/ \E t \in Users : Enqueue(t)
    \/ \E t \in Users : JoinAll(t)
    \/ \E w \in Workers : FinalizeJobs(w)
    \/ \E w \in Workers : NextJob(w)
    \/ \E w \in Workers : SpuriousWakeup(w)

JoinFairness ==
    \A t \in Threads :
        WF_vars(Progress(t) \/ JoinAllSetBailout(t) \/ JoinAllNotify(t)
                \/ JoinAllJoin(t))

JoinSpec == JoinInit /\ [][JoinNext]_vars /\ JoinFairness

\* ------------------------------------------------------------- the tests
\* Enqueuer::operator(): one enqueue call per job of its data set.
Enqueuer(k) == [i \in 1..k |-> "enqueue"]

\* A test thread runs on: it makes its next call and is scheduled inside it.
Run(t) ==
    \/ Progress(t)
    \/ CallEnqueue(t)
    \/ CallCancelPending(t)
    \/ CallWaitAll(t)
    \/ CallJoinAll(t)
    \/ JoinThreads(t)
    \/ JoinAllSetBailout(t)
    \/ JoinAllNotify(t)
    \/ JoinAllJoin(t)

TestFairness == \A t \in Threads : WF_vars(Run(t))

\* Threads that make the calls of `scripts`, in order.
TestThreads(scripts, enqueues) ==
    /\ allowed = [t \in Threads |-> {}]
    /\ script = scripts
    /\ budget = enqueues

\* waitAllFromMultipleThreads: every thread calls waitAll once.  The jobs of
\* the test are enqueued by any of its threads, before its waitAll call or
\* once that call has returned, while other threads are still in theirs.  A thread blocked
\* in waitAll is woken by notify_all only, so that every wake-up of a waiter
\* is that of a transition of jobsLeft to 0.
WaitInit ==
    /\ fine = FALSE
    /\ \E n \in 1..QueueThreadCount :
          \E before, after \in [FirstUsers(WaitUsers) -> 0..WaitJobs] :
             LET sum[u \in MainUser - 1..MainUser + WaitUsers - 1] ==
                    IF u < MainUser THEN 0
                    ELSE sum[u - 1] + before[u] + after[u]
             IN  /\ sum[MainUser + WaitUsers - 1] <= WaitJobs
                 /\ Construct(n, FirstUsers(WaitUsers))
                 /\ TestThreads(
                       [t \in Threads |->
                           IF t \in FirstUsers(WaitUsers)
                           THEN Enqueuer(before[t]) \o <<"waitAll">>
                                \o Enqueuer(after[t])
                           ELSE <<>>],
                       sum[MainUser + WaitUsers - 1])

WaitNext ==
    \/ \E t \in Users : Enqueue(t)
    \/ \E t \in Users : WaitAll(t)
    \/ \E w \in Workers : FinalizeJobs(w)
    \/ \E w \in Workers : NextJob(w)
    \/ \E w \in Workers : SpuriousWakeup(w)

WaitSpec == WaitInit /\ [][WaitNext]_vars /\ TestFairness

\* cancelPending1UserThread: n workers; the primary thread enqueues k jobs,
\* calls cancelPending after any delay, then waitAll; the queue is destroyed
\* at the end of the test.  With m > 0 a second thread enqueues m more jobs
\* at any time, and is joined before the queue is destroyed.
CancelInit ==
    /\ fine = FALSE
    /\ \E n \in 0..TestWorkers, k \in 0..TestJobs, m \in 0..LateJobs :
          /\ k + m <= TestJobs
          /\ Construct(n, IF m = 0 THEN {MainUser} ELSE {MainUser, MainUser + 1})
          /\ TestThreads(
                [t \in Threads |->
                    IF t = MainUser
                    THEN Enqueuer(k) \o <<"cancelPending", "waitAll">>
                         \o (IF m = 0 THEN <<>> ELSE <<"join">>) \o <<"joinAll">>
                    ELSE IF t = MainUser + 1 THEN Enqueuer(m) ELSE <<>>],
                k + m)

CancelNext ==
    \/ \E t \in Users : Enqueue(t)
    \/ \E t \in Users : CancelPending(t)
    \/ \E t \in Users : WaitAll(t)
    \/ \E t \in Users : JoinThreads(t)
    \/ \E t \in Users : JoinAll(t)
    \/ \E t \in Threads : FinalizeJobs(t)
    \/ \E w \in Workers : NextJob(w)
    \/ \E t \in Threads : SpuriousWakeup(t)

CancelSpec == CancelInit /\ [][CancelNext]_vars /\ TestFairness

\* singleUserThread and multipleUserThreads: n workers; each of p threads
\* enqueues its data set; the primary thread joins the others, then calls
\* waitAll; the queue is destroyed at the end of the test.
CompleteInit ==
    /\ fine = FALSE
    /\ \E n \in 0..TestWorkers, p \in 1..TestProducers :
          \E sizes \in [FirstUsers(p) -> 0..ProducedJobs] :
             LET sum[u \in MainUser - 1..MainUser + p - 1] ==
                    IF u < MainUser THEN 0 ELSE sum[u - 1] + sizes[u]
             IN  /\ sum[MainUser + p - 1] <= ProducedJobs
                 /\ Construct(n, FirstUsers(p))
                 /\ TestThreads(
                       [t \in Threads |->
                           IF t = MainUser
                           THEN Enqueuer(sizes[t]) \o <<"join", "waitAll", "joinAll">>
                           ELSE IF t \in FirstUsers(p) THEN Enqueuer(sizes[t])
                           ELSE <<>>],
                       sum[MainUser + p - 1])

CompleteNext ==
    \/ \E t \in Users : Enqueue(t)
    \/ \E t \in Users : WaitAll(t)
    \/ \E t \in Users : JoinThreads(t)
    \/ \E t \in Users : JoinAll(t)
    \/ \E w \in Workers : FinalizeJobs(w)
    \/ \E w \in Workers : NextJob(w)
    \/ \E t \in Threads : SpuriousWakeup(t)

CompleteSpec == CompleteInit /\ [][CompleteNext]_vars /\ TestFairness

\* The primary thread's waitAll call has returned: the test's QCOMPARE.
WaitAllReturned ==
    /\ pc[MainUser] = "idle"
    /\ script[MainUser] # <<>>
    /\ Head(script[MainUser]) \in {"joinAll"}

\* ------------------------------------------------------------- the claims
Occurrences(q, j) == Cardinality({i \in 1..Len(q) : q[i] = j})
InCancelPending(t) == t \in Users /\ pc[t] \in {"cp", "fj", "fj_notify"}

\* C1: no job is executed more than once, none is both executed and drained by
\* a cancelPending call, and none is drained by more than one cancelPending call.
AtMostOneDisposition == \A j \in Jobs : executed[j] + drained[j] <= 1

\* Two cancelPending calls are running at once, and one has drained a job.
ConcurrentCancelsDrainedReached ==
    \E t, u \in Users :
        /\ t # u
        /\ InCancelPending(t)
        /\ InCancelPending(u)
        /\ \E j \in Jobs : drained[j] = 1

\* C3: in every state jobsLeft >= 0 and jobsLeft >= the number of pending jobs.
CounterCoversQueue == jobsLeft >= 0 /\ jobsLeft >= Len(queue)

\* A job is pending while another one, popped, is still counted.
CounterAboveQueueReached ==
    /\ Len(queue) >= 1
    /\ jobsLeft > Len(queue)
    /\ \E w \in Workers : pc[w] \in {"job", "fj"}

\* C7: cancelPending removes, in one step, every job pending at that step,
\* returns the number of jobs it removed, decreases jobsLeft by exactly that
\* number, and no removed job is ever executed.
CancelDrainsAndCharges ==
    /\ [][\A t \in Users :
            /\ (pc[t] = "cp" /\ pc'[t] # "cp") =>
                  /\ queue' = <<>>
                  /\ \A j \in Jobs : drained'[j] = drained[j] + Occurrences(queue, j)
                  /\ jobsLeft' = jobsLeft
                  /\ IF queue = <<>>
                     THEN pc'[t] = "idle" /\ retval'[t] = 0
                     ELSE pc'[t] = "fj" /\ oldQueue'[t] = queue
            /\ (pc[t] = "fj" /\ pc'[t] # "fj") =>
                  /\ jobsLeft' = jobsLeft - Len(oldQueue[t])
                  /\ queue' = queue
            /\ (pc[t] = "fj_notify" /\ pc'[t] # "fj_notify") =>
                  /\ jobsLeft' = jobsLeft
                  /\ queue' = queue
            /\ (pc[t] \in {"fj", "fj_notify"} /\ pc'[t] = "idle") =>
                  retval'[t] = Len(oldQueue[t])
         ]_vars
    /\ [](\A j \in Jobs : drained[j] >= 1 =>
            /\ executed[j] = 0
            /\ Occurrences(queue, j) = 0
            /\ \A w \in Workers : job[w] # j)

\* A cancelPending call has returned 2 after removing both pending jobs.
CancelReturnedTwoReached ==
    \E t \in Users :
        /\ pc[t] = "idle"
        /\ retval[t] = 2
        /\ Cardinality({j \in Jobs : drained[j] = 1}) = 2
        /\ jobsLeft = 0

\* C9: cancelPending on an empty pending queue returns 0 in its one step,
\* leaves the queue, jobsLeft and bailout unchanged and wakes no thread.
CancelEmptyIsNoOp ==
    [][\A t \in Users :
          (pc[t] = "cp" /\ pc'[t] # "cp" /\ queue = <<>>) =>
              /\ pc'[t] = "idle"
              /\ retval'[t] = 0
              /\ queue' = queue
              /\ jobsLeft' = jobsLeft
              /\ bailout' = bailout
              /\ assertFailed' = assertFailed
              /\ \A u \in Threads \ {t} : pc'[u] = pc[u]
      ]_vars

\* A cancelPending call found the queue empty and returned 0 while a worker
\* is executing a job.
CancelEmptyReached ==
    \E t \in Users :
        /\ pc[t] = "idle"
        /\ retval[t] = 0
        /\ queue = <<>>
        /\ \E w \in Workers : pc[w] = "job"

\* The enqueue call for job j has returned.
Submitted(j) == j <= nextId /\ \A t \in Threads : arg[t] # j

\* C2: with at least one worker and no teardown, under fair scheduling every
\* job whose enqueue call has returned is eventually executed by a worker or
\* removed by a cancelPending call; none stays in the pending queue forever.
NeverNeither ==
    \A j \in 1..LiveJobs :
        (threadCount >= 1 /\ (Submitted(j) \/ Occurrences(queue, j) > 0))
            ~> (executed[j] = 1 \/ drained[j] = 1)

\* A job whose enqueue call has returned has been executed by a worker.
SubmittedJobExecutedReached ==
    \E j \in Jobs : threadCount >= 1 /\ Submitted(j) /\ executed[j] = 1

InWaitAll(t) == pc[t] \in {"wa", "wa_blocked", "wa_woken"}

\* C4: waitAll returns only from a step that finds jobsLeft = 0 under the
\* lock; it returns without waiting when jobsLeft is 0 as it takes the lock;
\* and a waiter is not left blocked while jobsLeft is 0 and stays 0.
WaitAllIsBarrier ==
    /\ [][\A t \in Users :
            /\ (InWaitAll(t) /\ pc'[t] = "idle") => jobsLeft = 0
            /\ (pc[t] = "wa" /\ pc'[t] # "wa" /\ jobsLeft = 0) => pc'[t] = "idle"
            /\ (pc[t] = "wa" /\ pc'[t] = "wa_blocked") => jobsLeft > 0
         ]_vars
    /\ \A t \in Users :
          (pc[t] \in {"wa_blocked", "wa_woken"} /\ jobsLeft = 0)
              ~> (pc[t] = "idle" \/ jobsLeft # 0)

\* A waiter that found jobsLeft > 0 is blocked, and jobsLeft has become 0.
BlockedWaiterAtZeroReached ==
    \E t \in Users : pc[t] = "wa_blocked" /\ jobsLeft = 0 /\ nextId >= 1

\* The enqueue call for job j has incremented jobsLeft.
Counted(j) == j <= nextId /\ \A t \in Threads : ~(arg[t] = j /\ pc[t] = "enq")

\* Every job of an enqueue call made so far has been swapped out by cancelPending.
AllDrained == nextId >= 1 /\ \A j \in 1..nextId : drained[j] = 1

\* C10: a pool of 0 worker threads executes no job; a waitAll call returns
\* only when every job counted so far has been drained by cancelPending; and
\* once every job has been drained and no further job is submitted, a blocked
\* waitAll call returns.
ZeroWorkersNeedCancel ==
    /\ [](threadCount = 0 /\ \A j \in Jobs : executed[j] = 0)
    /\ [][\A t \in Users :
            (InWaitAll(t) /\ pc'[t] = "idle") =>
                \A j \in 1..nextId : Counted(j) => drained[j] = 1
         ]_vars
    /\ \A t \in Users :
          (pc[t] \in {"wa_blocked", "wa_woken"} /\ AllDrained)
              ~> (pc[t] = "idle" \/ ~AllDrained)

\* With no worker, a waiter blocked on a submitted job has been woken after a
\* cancelPending call drained it.
WaiterWokenByCancelReached ==
    \E t \in Users :
        /\ threadCount = 0
        /\ pc[t] = "wa_woken"
        /\ AllDrained
        /\ jobsLeft = 0
        /\ \E u \in Users \ {t} : retval[u] >= 1

\* C5: in the tests without cancelPending, once every enqueue call has
\* returned, a waitAll call returns if the pool has a worker or no job was
\* enqueued; when it has returned every enqueued job has been executed exactly
\* once, and the total is the sum of all their summands.
AllWorkCompleted ==
    /\ [](WaitAllReturned =>
            /\ budget = 0
            /\ \A j \in Jobs : executed[j] = IF j <= nextId THEN 1 ELSE 0
            /\ total = ExpectedTotal(1, nextId))
    /\ (pc[MainUser] = "wa" /\ (threadCount >= 1 \/ nextId = 0))
           ~> WaitAllReturned

\* Two threads have enqueued two jobs, and the waitAll call has returned.
TwoProducersCompletedReached ==
    /\ WaitAllReturned
    /\ threadCount >= 1
    /\ pc[MainUser + 1] = "idle"
    /\ nextId = 2
    /\ total = ExpectedTotal(1, 2)

\* The primary thread is the only one that enqueues.
SingleProducer == pc[MainUser + 1] = "off"

\* C6: a single thread enqueues its jobs, calls cancelPending once, then
\* waitAll, with any number of workers.  waitAll returns; the count C that
\* cancelPending returned is between 0 and the number of jobs; the executed
\* jobs are exactly the first (jobs - C) in enqueue order, the others were
\* drained, and the total is the sum of the summands of that prefix.
CancelDropsSuffix ==
    /\ [](SingleProducer /\ WaitAllReturned =>
            /\ retval[MainUser] \in 0..nextId
            /\ \A j \in Jobs :
                  /\ executed[j] = IF j <= nextId - retval[MainUser] THEN 1 ELSE 0
                  /\ drained[j] = IF j > nextId - retval[MainUser] /\ j <= nextId
                                  THEN 1 ELSE 0
            /\ total = ExpectedTotal(1, nextId - retval[MainUser]))
    /\ (SingleProducer /\ pc[MainUser] = "wa") ~> WaitAllReturned

\* Of three jobs the first two were executed and the last one was cancelled.
SuffixOfOneCancelledReached ==
    /\ SingleProducer
    /\ WaitAllReturned
    /\ nextId = 3
    /\ retval[MainUser] = 1
    /\ total = 6

\* A worker has popped a job and has not finished its body.
InFlight(w) == pc[w] = "job"

\* C8: a job that a worker popped before cancelPending's swap is not
\* cancelled: it is in no swapped-out queue, and its body runs to completion.
\* After the swap the cancelPending call does not touch the pending queue, so
\* a job appended later stays there.  With one worker and the jobs {1, 5, 3}
\* of one thread, a swap made while the first job is in flight removes the
\* other two, and a test whose cancelPending returned 2 ends with total 1.
CancelRaceWindow ==
    /\ [](\A w \in Workers :
             InFlight(w) =>
                /\ drained[job[w]] = 0
                /\ \A t \in Users : Occurrences(oldQueue[t], job[w]) = 0)
    /\ [][\A w \in Workers :
             InFlight(w) /\ pc'[w] # pc[w] =>
                pc'[w] = "fj" /\ executed'[job[w]] = executed[job[w]] + 1]_vars
    /\ \A w \in 1..TestWorkers : InFlight(w) ~> (pc[w] = "fj")
    /\ [][\A t \in Users :
             InCancelPending(t) /\ pc[t] # "cp" /\ pc'[t] # pc[t] =>
                queue' = queue /\ drained' = drained]_vars
    /\ [][(/\ threadCount = 1 /\ SingleProducer /\ nextId = 3
           /\ InFlight(1) /\ job[1] = 1
           /\ pc[MainUser] = "cp" /\ pc'[MainUser] # "cp") =>
                /\ count'[MainUser] = 2
                /\ drained' = [j \in Jobs |-> IF j \in {2, 3} THEN 1 ELSE 0]
                /\ queue' = <<>>]_vars
    /\ []((/\ threadCount = 1 /\ SingleProducer /\ nextId = 3
           /\ WaitAllReturned /\ retval[MainUser] = 2) =>
                total = 1 /\ executed[1] = 1)

\* cancelPending has swapped the queue out while a job was in flight, and
\* before it returned another thread appended a job, which is pending.
AppendedAfterSwapReached ==
    /\ pc[MainUser] = "fj"
    /\ count[MainUser] >= 1
    /\ \E w \in Workers : InFlight(w)
    /\ Len(queue) = 1
    /\ drained[queue[1]] = 0

\* C11, as stated: a caller blocked in waitAll that the transition of jobsLeft
\* to 0 has woken returns; it is not blocked again.
WokenWaiterReturns ==
    [][\A u \in Users : pc[u] = "wa_woken" => pc'[u] # "wa_blocked"]_vars

\* C11, amended: the notification of a transition of jobsLeft to 0 wakes every
\* caller blocked in waitAll; a woken caller returns if it reads jobsLeft = 0
\* under the lock and waits for the next transition if an enqueue call has
\* raised jobsLeft before; every thread's waitAll call returns in the end, and
\* so do the enqueue calls it makes afterwards.
WaitersWokenTogether ==
    /\ [][\A t \in Threads :
            (pc[t] = "fj_notify" /\ pc'[t] # "fj_notify") =>
                \A u \in Users : pc[u] = "wa_blocked" => pc'[u] = "wa_woken"]_vars
    /\ [][\A u \in Users :
            (pc[u] = "wa_woken" /\ pc'[u] # "wa_woken") =>
                pc'[u] = IF jobsLeft = 0 THEN "idle" ELSE "wa_blocked"]_vars
    /\ <>(\A u \in Users : pc[u] \in {"idle", "off"} /\ script[u] = <<>>)

\* Two callers blocked in waitAll have been woken by the same notification.
TwoWaitersWokenReached ==
    \E t, u \in Users :
        /\ t # u
        /\ pc[t] = "wa_woken"
        /\ pc[u] = "wa_woken"
        /\ jobsLeft = 0

InJoinAll(t) == pc[t] \in {"ja", "ja_notify", "ja_join"}

\* C12: a joinAll call returns, whatever the workers were doing and whatever
\* is pending; once bailout is set and the call that set it has returned,
\* every worker thread has terminated; a joinAll call that finds bailout set
\* returns in its first step, and that step changes nothing but the caller's
\* position.
TeardownCompletes ==
    /\ \A t \in FirstUsers(JoinUsers) : InJoinAll(t) ~> (pc[t] = "idle")
    /\ [](bailout /\ (\A t \in Users : pc[t] \notin {"ja_notify", "ja_join"})
             => \A w \in Workers : pc[w] \in {"off", "terminated"})
    /\ [][\A t \in Users :
            (pc[t] = "ja" /\ bailout /\ pc'[t] # "ja") =>
                /\ pc'[t] = "idle"
                /\ \A u \in Threads \ {t} : pc'[u] = pc[u]
                /\ UNCHANGED <<queue, jobsLeft, bailout, queueMutex,
                               jobsLeftMutex, job, executed, drained, total>>]_vars

\* joinAll has returned: the worker has terminated, a job is still pending,
\* and a second joinAll call is being made.
SecondJoinAllReached ==
    /\ bailout
    /\ threadCount >= 1
    /\ \A w \in Workers : pc[w] \in {"off", "terminated"}
    /\ Len(queue) >= 1
    /\ \E t \in Users : pc[t] = "ja"

\* C13: a worker that is about to run or is running a job body holds neither
\* queueMutex nor jobsLeftMutex, and the step that runs the body is taken
\* with neither held by that worker: queueMutex was released after the pop.
JobRunsUnlocked ==
    /\ [](\A w \in Workers :
             InFlight(w) => queueMutex # w /\ jobsLeftMutex # w)
    /\ [][\A w \in Workers :
             InFlight(w) /\ executed' # executed =>
                queueMutex # w /\ jobsLeftMutex # w]_vars
    /\ [][\A w \in Workers :
             (queueMutex = w /\ job'[w] # job[w] /\ job'[w] # NoJob) =>
                pc'[w] = "unlock_queue" /\ queueMutex' = w]_vars

\* A worker runs a job body while another thread holds queueMutex.
JobRunsWhileLockHeldReached ==
    \E w \in Workers :
        /\ InFlight(w)
        /\ queueMutex \in Users
        /\ fine

\* A worker is inside a call that the body of its job made on the pool.
InBodyEnqueue(w) == pc[w] \in {"enq", "enq_push", "enq_notify"}
InBodyCancel(w) ==
    pc[w] = "cp" \/ (pc[w] \in {"fj", "fj_notify"} /\ ~FinalizesJob(w))

\* C14, as stated: every enqueue, cancelPending or waitAll call that a job
\* body makes on the pool that runs it returns.
BodyCallsReturn ==
    \A w \in 1..BodyWorkers :
        (InBodyEnqueue(w) \/ InBodyCancel(w) \/ InWaitAll(w)) ~> InFlight(w)

\* C14, amended: every enqueue or cancelPending call that a job body makes
\* returns: a worker holds no mutex while it is in the body of its job, so
\* that the call can lock queueMutex and jobsLeftMutex.  A waitAll call that
\* a job body makes never returns: the job that makes it is counted in
\* jobsLeft until its body has returned.
BodyEnqueueCancelReturn ==
    /\ \A w \in 1..BodyWorkers :
          (InBodyEnqueue(w) \/ InBodyCancel(w)) ~> InFlight(w)
    /\ [](\A w \in Workers :
             (InFlight(w) \/ InWaitAll(w)) =>
                jobsLeft >= 1 /\ queueMutex # w /\ jobsLeftMutex # w)
    /\ [][\A w \in Workers : InWaitAll(w) => InWaitAll(w)']_vars

\* The body of a job has called cancelPending, which drained a job, and the
\* call has returned.
BodyCancelReturnedReached ==
    \E w \in Workers :
        /\ InFlight(w)
        /\ retval[w] >= 1
        /\ executed[job[w]] = 0

InEnqueue(t) == pc[t] \in {"enq", "enq_push", "enq_notify"}

\* C15: every enqueue call and every cancelPending call returns, with any
\* number of workers, also when the body of a job never returns and while a
\* thread is blocked in waitAll; the step of enqueue that appends does append
\* the job, whatever the size of the queue, and no assertion fails.
SubmitCancelNeverBlock ==
    /\ (InEnqueue(MainUser) \/ InCancelPending(MainUser))
          ~> (pc[MainUser] = "idle")
    /\ [][\A t \in Users :
            (pc[t] = "enq_push" /\ pc'[t] # "enq_push") =>
                queue' = Append(queue, arg[t])]_vars
    /\ [](~assertFailed)

\* A cancelPending call has returned while a worker is in the body of a job
\* and a thread is blocked in waitAll.
CancelReturnedDuringJobReached ==
    /\ \E w \in Workers : InFlight(w)
    /\ pc[MainUser + 1] = "wa_blocked"
    /\ pc[MainUser] = "idle"
    /\ retval[MainUser] # NoValue
    /\ nextId >= 1

\* Worker w pops a job in this step.
Pops(w) == job[w] = NoJob /\ job'[w] # NoJob

\* C16: a worker pops the head of the pending queue and an enqueue call
\* appends its job at the tail in one step; no step reorders the queue: it
\* appends one job, removes the head, or empties the queue.  With a single
\* producer the pending jobs are in submission order, behind every job that
\* was popped, so that the jobs are popped in submission order.
FifoDequeue ==
    /\ [][/\ \A w \in Workers :
                Pops(w) => job'[w] = Head(queue) /\ queue' = Tail(queue)
          /\ \A t \in Users :
                (pc[t] = "enq_push" /\ pc'[t] # "enq_push") =>
                    queue' = Append(queue, arg[t])
          /\ \/ queue' = queue
             \/ queue' = <<>>
             \/ queue # <<>> /\ queue' = Tail(queue)
             \/ \E j \in Jobs : queue' = Append(queue, j)]_vars
    /\ [](SingleProducer =>
            /\ \A i, k \in 1..Len(queue) : i < k => queue[i] < queue[k]
            /\ \A w \in Workers, i \in 1..Len(queue) : job[w] < queue[i]
            /\ \A j \in Jobs, i \in 1..Len(queue) :
                  executed[j] >= 1 => j < queue[i])
    /\ [][\A w \in Workers :
            SingleProducer /\ Pops(w) =>
                \A j \in Jobs :
                    (executed[j] >= 1 \/ \E v \in Workers : job[v] = j)
                        => j < job'[w]]_vars

\* A single producer: job 1 has run, job 2 was popped next, job 3 is pending.
PoppedInOrderReached ==
    /\ SingleProducer
    /\ executed[1] = 1
    /\ \E w \in Workers : InFlight(w) /\ job[w] = 2
    /\ queue = <<3>>

Leaves(t, p) == pc[t] = p /\ pc'[t] # p

\* C19: the counter goes up only in the first section of an enqueue call, by
\* one, with the job not yet in the queue; it goes down only in finalizeJobs,
\* by one for a worker whose job body has returned, by the size of oldQueue
\* for a cancelPending call; the steps of waitAll and joinAll, the pop and
\* the swap leave it as it is.
CounterChangesThreeWays ==
    [][/\ jobsLeft' > jobsLeft =>
            /\ jobsLeft' = jobsLeft + 1
            /\ \E t \in Threads :
                  /\ Leaves(t, "enq")
                  /\ Occurrences(queue, arg[t]) = 0
                  /\ Occurrences(queue', arg[t]) = 0
       /\ jobsLeft' < jobsLeft =>
            \E t \in Threads :
                /\ Leaves(t, "fj")
                /\ \/ /\ FinalizesJob(t)
                      /\ executed[job[t]] >= 1
                      /\ jobsLeft' = jobsLeft - 1
                   \/ /\ ~FinalizesJob(t)
                      /\ Len(oldQueue[t]) >= 1
                      /\ jobsLeft' = jobsLeft - Len(oldQueue[t])
       /\ jobsLeft' # jobsLeft =>
            \A t \in Threads :
                /\ ~Leaves(t, "wa") /\ ~Leaves(t, "wa_woken")
                /\ ~Leaves(t, "ja") /\ ~Leaves(t, "ja_notify")
                /\ ~Leaves(t, "ja_join")
                /\ ~Leaves(t, "cp")
                /\ ~Leaves(t, "nj") /\ ~Leaves(t, "nj_woken")
                /\ ~Leaves(t, "enq_push") /\ ~Leaves(t, "enq_notify")]_vars

\* Two jobs were counted; one was run and charged by the worker, the other
\* drained and charged by cancelPending.
CounterUpAndDownReached ==
    /\ jobsLeft = 0
    /\ nextId = 2
    /\ \E j, k \in Jobs : executed[j] = 1 /\ drained[k] = 1
    /\ \E u \in Users : pc[u] = "idle" /\ retval[u] = 1
    /\ \A w \in Workers : job[w] = NoJob

\* The job that worker w popped is not charged yet: finalizeJobs(1) has not
\* made its decrement.
PoppedUncharged(w) ==
    /\ w \in Workers
    /\ job[w] # NoJob
    /\ ~(FinalizesJob(w) /\ (pc[w] = "fj_notify" \/ resume[w] = "fj_notify"))

\* The enqueue call of thread t has counted its job and not appended it.
CountedUnappended(t) == pc[t] = "enq_push" \/ resume[t] = "enq_push"

\* The jobs that the cancelPending call of thread t swapped out and has not
\* charged yet.
SwappedUncharged(t) ==
    IF oldQueue[t] # <<>> /\ pc[t] # "fj_notify" /\ resume[t] # "fj_notify"
    THEN Len(oldQueue[t]) ELSE 0

RECURSIVE Outstanding(_)
Outstanding(S) ==
    IF S = {} THEN 0
    ELSE LET t == CHOOSE x \in S : TRUE
         IN  (IF PoppedUncharged(t) THEN 1 ELSE 0)
             + (IF CountedUnappended(t) THEN 1 ELSE 0)
             + SwappedUncharged(t)
             + Outstanding(S \ {t})

\* C20: the counter is the number of pending jobs, plus the popped jobs not
\* charged yet, plus the enqueue calls between their increment and their
\* append, plus the jobs swapped out by cancelPending calls and not charged
\* yet; at zero the queue is empty and no worker is running a job.
ExactAccounting ==
    /\ jobsLeft = Len(queue) + Outstanding(Threads)
    /\ jobsLeft = 0 =>
          /\ queue = <<>>
          /\ \A w \in Workers : ~InFlight(w) /\ ~PoppedUncharged(w)

\* The counter is two with an empty queue: a worker runs one job, a
\* cancelPending call has swapped out the other and not charged it.
PoppedAndSwappedCountedReached ==
    /\ jobsLeft = 2
    /\ queue = <<>>
    /\ \E w \in Workers : InFlight(w)
    /\ \E u \in Users : pc[u] = "fj" /\ Len(oldQueue[u]) = 1

\* The workers that the constructor started.
Started == {w \in Workers : w <= threadCount}

\* No enqueue call is between its append and its notify_one.
NoNotifyPending == \A t \in Threads : pc[t] # "enq_notify" /\ resume[t] # "enq_notify"

\* C21: with at least one worker, a job is never left in the pending queue
\* while bailout is false, no enqueue call has its notify_one still to make,
\* and every worker is blocked in the wait with no wake-up delivered.
NoLostWakeup ==
    ~(/\ threadCount >= 1
      /\ queue # <<>>
      /\ ~bailout
      /\ NoNotifyPending
      /\ \A w \in Started : pc[w] = "nj_blocked")

\* A job is pending, the enqueue call that appended it has returned after its
\* notify_one, and every worker has left the wait with the wake-up delivered.
WorkersWokenForJobReached ==
    /\ threadCount >= 1
    /\ queue # <<>>
    /\ ~bailout
    /\ NoNotifyPending
    /\ \A u \in Users : pc[u] \in {"idle", "off"}
    /\ \A w \in Started : pc[w] = "nj_woken"

\* The jobs that job bodies have submitted so far, and those of them that
\* have neither run nor been drained by cancelPending.
Children == 2..nextId
Unfinished(j) == executed[j] = 0 /\ drained[j] = 0

\* C22: from the pop of a job to the end of its body, and from the enqueue
\* call that a job body makes to the moment its job has run or was swapped
\* out by cancelPending, the counter is at least 1; a waitAll call returns
\* only when no job is in a worker's hands and every job submitted by a job
\* body has run or was drained.
ChildKeepsBarrierClosed ==
    /\ [](\A w \in Workers : PoppedUncharged(w) => jobsLeft >= 1)
    /\ [](\A j \in Children : Unfinished(j) => jobsLeft >= 1)
    /\ [][\A u \in Users :
            (InWaitAll(u) /\ ~InWaitAll(u)') =>
                /\ jobsLeft = 0
                /\ \A w \in Workers : ~PoppedUncharged(w)
                /\ \A j \in Children : ~Unfinished(j)]_vars

\* The parent has run and is charged, its child is pending, and the thread
\* that called waitAll while the parent was running is still blocked.
WaiterBlockedOnChildReached ==
    /\ executed[1] = 1
    /\ queue = <<2>>
    /\ jobsLeft = 1
    /\ \A w \in Workers : job[w] = NoJob
    /\ pc[MainUser + 1] = "wa_blocked"

\* The next step of thread t locks queueMutex, or jobsLeftMutex.
WantsQueueMutex(t) == pc[t] \in {"enq_push", "cp", "nj", "nj_woken", "ja"}
WantsJobsLeftMutex(t) == pc[t] \in {"enq", "fj", "wa", "wa_woken"}

\* C23: no thread holds queueMutex and jobsLeftMutex together: the holder of
\* a mutex is at the end of the scope of its lock, where its next step is the
\* unlock, and asks for no other mutex; so no two threads hold one mutex each
\* and wait for the other one.
NoNestedLocking ==
    /\ \A t \in Threads :
          /\ ~(queueMutex = t /\ jobsLeftMutex = t)
          /\ queueMutex = t => pc[t] = "unlock_queue"
          /\ jobsLeftMutex = t => pc[t] = "unlock_jobsLeft"
    /\ \A t, u \in Threads :
          ~(/\ queueMutex = t /\ WantsJobsLeftMutex(t)
            /\ jobsLeftMutex = u /\ WantsQueueMutex(u))

\* Both mutexes are held, by two threads: a cancelPending call is in its
\* swap while a worker is in the decrement of finalizeJobs.
BothMutexesHeldReached ==
    \E u \in Users, w \in Workers :
        /\ queueMutex = u
        /\ resume[u] \in {"fj", "idle"}
        /\ jobsLeftMutex = w
        /\ job[w] # NoJob

====
